---- MODULE Spec2Model ----
(***************************************************************************)
(* A model of visualize.py: run_dashboard and the functions it calls       *)
(* (run_pylint_on_file, calculate_priority_score, the two sorts).          *)
(*                                                                         *)
(* Representation.                                                         *)
(*   - a Python str that is compared or searched (a path, the textual      *)
(*     summary) is a sequence of one-character strings; a str that is only *)
(*     tested for equality (a kind, a symbol) is a TLA+ string;            *)
(*   - a score is an integer number of hundredths: 10.0 is 1000, 9.5 is    *)
(*     950, 0.0 is 0;                                                      *)
(*   - what pylint does for one scope is a record                          *)
(*         [raises, json, text]                                            *)
(*     raises: "none", or the exception subprocess.run raises;             *)
(*     json:   the stdout of the --output-format=json run, already         *)
(*             classified: [tag |-> "empty" | "invalid" | "list" |         *)
(*             "object", items |-> the records of a JSON array];           *)
(*     text:   the stdout of the plain run.                                *)
(*   - rendering (plotly, the HTML template, the file write, the viewer)   *)
(*     is one step, Render, that changes nothing the claims read.          *)
(***************************************************************************)
EXTENDS Integers, Sequences, FiniteSets, TLC

(***************************************************************************)
(* Bounds of the model.                                                    *)
(***************************************************************************)
\* longest list of findings drawn from FindingPool for the whole-target run
MaxFindings == 3
\* longest list of findings of one file in the per-file counting runs
MaxFileFindings == 3
\* most files get_python_files discovers
MaxFiles == 3
\* length of the long lists of findings (the first length at which the
\* argsort partitions instead of insertion-sorting)
LargeLen == 18

(***************************************************************************)
(* Module constants of visualize.py.                                       *)
(***************************************************************************)
Kinds == {"fatal", "error", "warning", "refactor", "convention"}

SCORE_WEIGHTS ==
    [k \in Kinds |-> CASE k = "fatal" -> 50
                       [] k = "error" -> 25
                       [] k = "warning" -> 5
                       [] k = "refactor" -> 2
                       [] k = "convention" -> 1]

SEVERITY_ORDER ==
    [k \in Kinds |-> CASE k = "fatal" -> 0
                       [] k = "error" -> 1
                       [] k = "warning" -> 2
                       [] k = "refactor" -> 3
                       [] k = "convention" -> 4]

\* the initial / fallback score 10.0, in hundredths
DEFAULT_SCORE == 1000
\* the score 0.0 returned by the except clauses of run_pylint_on_file
FAILED_SCORE == 0

(***************************************************************************)
(* Python str: code points and the < of str (lexicographic by code point). *)
(* A str is a sequence of characters.  An ASCII character is written as    *)
(* itself; a character outside ASCII is written "U+" and its code point in *)
(* decimal, one element of the sequence.                                   *)
(***************************************************************************)
AsciiDigits == <<"0", "1", "2", "3", "4", "5", "6", "7", "8", "9">>

\* chr(n) for the code points of decimal digits
Chr(n) == IF n \in 48..57 THEN AsciiDigits[n - 47] ELSE "U+" \o ToString(n)

\* the code points of the digits zero of category Nd (Unicode 14.0); the
\* digits one to nine of each script follow their zero
NdZeros ==
    { 48, 1632, 1776, 1984, 2406, 2534, 2662, 2790, 2918, 3046, 3174, 3302,
      3430, 3558, 3664, 3792, 3872, 4160, 4240, 6112, 6160, 6470, 6608, 6784,
      6800, 6992, 7088, 7232, 7248, 42528, 43216, 43264, 43472, 43504, 43600,
      44016, 65296, 66720, 68912, 69734, 69872, 69942, 70096, 70384, 70736,
      70864, 71248, 71360, 71472, 71904, 72016, 72784, 73040, 73120, 92768,
      92864, 93008, 120782, 120792, 120802, 120812, 120822, 123200, 123632,
      125264, 130032 }

\* the class \d of a str pattern: every decimal digit of Unicode
Digits == {Chr(z + d) : z \in NdZeros, d \in 0..9}

\* the decimal value float() gives a digit
DigitVal(c) ==
    CASE c = "0" -> 0 [] c = "1" -> 1 [] c = "2" -> 2 [] c = "3" -> 3
      [] c = "4" -> 4 [] c = "5" -> 5 [] c = "6" -> 6 [] c = "7" -> 7
      [] c = "8" -> 8 [] c = "9" -> 9
      [] OTHER -> CHOOSE d \in 0..9 : \E z \in NdZeros : c = Chr(z + d)

\* ord(c) for the characters the model's strings are made of
Ord(c) ==
    CASE c \in Digits ->
             CHOOSE n \in {z + d : z \in NdZeros, d \in 0..9} : c = Chr(n)
      [] c = " " -> 32 [] c = "(" -> 40 [] c = ")" -> 41 [] c = "-" -> 45
      [] c = "." -> 46 [] c = "/" -> 47
      [] c = "a" -> 97 [] c = "b" -> 98 [] c = "c" -> 99 [] c = "d" -> 100
      [] c = "e" -> 101 [] c = "i" -> 105 [] c = "p" -> 112
      [] c = "r" -> 114 [] c = "t" -> 116 [] c = "y" -> 121

RECURSIVE StrLessFrom(_, _, _)
StrLessFrom(s, t, k) ==
    IF k > Len(s) THEN k <= Len(t)
    ELSE IF k > Len(t) THEN FALSE
    ELSE IF Ord(s[k]) < Ord(t[k]) THEN TRUE
    ELSE IF Ord(s[k]) > Ord(t[k]) THEN FALSE
    ELSE StrLessFrom(s, t, k + 1)

\* s < t for two Python str
StrLess(s, t) == StrLessFrom(s, t, 1)

(***************************************************************************)
(* re.search(r'rated at ([\d.]+)/10', text) and float(group(1)).           *)
(***************************************************************************)
RatedAt == <<"r", "a", "t", "e", "d", " ", "a", "t", " ">>
SlashTen == <<"/", "1", "0">>

\* the character class [\d.]
InScoreClass(c) == c \in Digits \/ c = "."

StartsWith(text, i, lit) ==
    /\ i + Len(lit) - 1 <= Len(text)
    /\ \A k \in 1..Len(lit) : text[i + k - 1] = lit[k]

\* the end (exclusive) of the longest run of [\d.] starting at position i
RECURSIVE ClassRunEnd(_, _)
ClassRunEnd(text, i) ==
    IF i <= Len(text) /\ InScoreClass(text[i]) THEN ClassRunEnd(text, i + 1) ELSE i

\* a faulty variant: the pattern without its "/10"
MatchesAt_no_slash(text, i) ==
    /\ StartsWith(text, i, RatedAt)
    /\ ClassRunEnd(text, i + Len(RatedAt)) > i + Len(RatedAt)

\* the pattern matches at position i: "rated at ", then [\d.]+ (greedy; no
\* shorter run can be followed by "/"), then "/10"
MatchesAt(text, i) ==
    /\ StartsWith(text, i, RatedAt)
    /\ LET b == i + Len(RatedAt)
           e == ClassRunEnd(text, b)
       IN e > b /\ StartsWith(text, e, SlashTen)

re_search(text) ==
    LET hits == {i \in 1..Len(text) : MatchesAt(text, i)}
    IN IF hits = {} THEN [matched |-> FALSE, group |-> <<>>]
       ELSE LET i == CHOOSE h \in hits : \A o \in hits : h <= o
                b == i + Len(RatedAt)
            IN [matched |-> TRUE, group |-> SubSeq(text, b, ClassRunEnd(text, b) - 1)]

\* float(s) raises ValueError for a str of [\d.]+ with no digit or with
\* more than one "."
FloatValid(s) ==
    /\ Cardinality({k \in 1..Len(s) : s[k] = "."}) <= 1
    /\ \E k \in 1..Len(s) : s[k] \in Digits

RECURSIVE DecValue(_)
DecValue(ds) ==
    IF ds = <<>> THEN 0
    ELSE 10 * DecValue(SubSeq(ds, 1, Len(ds) - 1)) + DigitVal(ds[Len(ds)])

\* float(s), in hundredths, for s of at most two fractional digits
Float(s) ==
    LET dots == {k \in 1..Len(s) : s[k] = "."}
        d == IF dots = {} THEN Len(s) + 1 ELSE CHOOSE k \in dots : TRUE
        frac == SubSeq(s, d + 1, Len(s))
    IN 100 * DecValue(SubSeq(s, 1, d - 1))
       + (IF Len(frac) = 0 THEN 0
          ELSE IF Len(frac) = 1 THEN 10 * DigitVal(frac[1])
          ELSE 10 * DigitVal(frac[1]) + DigitVal(frac[2]))

(***************************************************************************)
(* The structured output: stdout.strip(), then json.loads under            *)
(* "except json.JSONDecodeError: pass".  The value is [tag, items]:        *)
(* tag "list" is a Python list of dicts, tag "object" is the dict parsed   *)
(* from a non-empty JSON object with scalar members (not a list of         *)
(* records).                                                               *)
(***************************************************************************)
EmptyIssues == [tag |-> "list", items |-> <<>>]

parse_issues(json) ==
    IF json.tag \in {"empty", "invalid"} THEN EmptyIssues
    ELSE [tag |-> json.tag, items |-> json.items]

\* bool(issues): a non-empty list, or the non-empty dict
Truthy(issues) == issues.tag = "object" \/ issues.items # <<>>

(***************************************************************************)
(* run_pylint_on_file                                                      *)
(***************************************************************************)
\* the built-in exceptions that derive from BaseException and not from
\* Exception: "except Exception" lets them through, a bare except does not
NotExceptions ==
    {"KeyboardInterrupt", "SystemExit", "GeneratorExit", "BaseExceptionGroup"}

\* "return issues, score"
Returns(issues, score) == [raises |-> "none", issues |-> issues, score |-> score]
\* the exception leaves the function and nothing is returned; issues and
\* score are not read
Propagates(e) == [raises |-> e, issues |-> EmptyIssues, score |-> FAILED_SCORE]

\* a faulty variant: the except clauses return the default score 10.0
run_pylint_on_file_default_on_error(run) ==
    IF run.raises \in NotExceptions
    THEN Propagates(run.raises)
    ELSE IF run.raises # "none"
    THEN Returns(EmptyIssues, DEFAULT_SCORE)
    ELSE LET issues == parse_issues(run.json)
             m == re_search(run.text)
         IN IF m.matched
            THEN IF FloatValid(m.group)
                 THEN Returns(issues, Float(m.group))
                 ELSE Returns(EmptyIssues, DEFAULT_SCORE)
            ELSE Returns(issues, DEFAULT_SCORE)

run_pylint_on_file(run) ==
    IF run.raises \in NotExceptions
    THEN \* neither except clause matches
         Propagates(run.raises)
    ELSE IF run.raises # "none"
    THEN \* except FileNotFoundError / except Exception
         Returns(EmptyIssues, FAILED_SCORE)
    ELSE LET issues == parse_issues(run.json)
             m == re_search(run.text)
         IN IF m.matched
            THEN IF FloatValid(m.group)
                 THEN Returns(issues, Float(m.group))
                 ELSE \* ValueError from float(), caught by except Exception
                      Returns(EmptyIssues, FAILED_SCORE)
            ELSE Returns(issues, DEFAULT_SCORE)

(***************************************************************************)
(* The whole-target run of run_dashboard (the first try block).  The score *)
(* is parsed before the structured output, and the bare except leaves      *)
(* whatever was not yet assigned at its initial value.                     *)
(***************************************************************************)
\* a faulty variant: a failed whole-target run sets the overall score to 0.0
run_on_target_zero_on_error(run) ==
    IF run.raises # "none"
    THEN [all_issues |-> EmptyIssues, overall_score |-> FAILED_SCORE]
    ELSE LET m == re_search(run.text)
         IN IF m.matched /\ ~FloatValid(m.group)
            THEN [all_issues |-> EmptyIssues, overall_score |-> FAILED_SCORE]
            ELSE [all_issues |-> parse_issues(run.json),
                  overall_score |-> IF m.matched THEN Float(m.group)
                                    ELSE DEFAULT_SCORE]

run_on_target(run) ==
    IF run.raises # "none"
    THEN [all_issues |-> EmptyIssues, overall_score |-> DEFAULT_SCORE]
    ELSE LET m == re_search(run.text)
         IN IF m.matched /\ ~FloatValid(m.group)
            THEN \* ValueError from float() before json.loads is reached
                 [all_issues |-> EmptyIssues, overall_score |-> DEFAULT_SCORE]
            ELSE [all_issues |-> parse_issues(run.json),
                  overall_score |-> IF m.matched THEN Float(m.group)
                                    ELSE DEFAULT_SCORE]

(***************************************************************************)
(* The per-file loop body: the tally and the summary record.               *)
(***************************************************************************)
\* the marker of a record that has no 'type' key
NoType == "<no type key>"

\* issue.get('type', '')
get_type(issue) == IF issue.type = NoType THEN "" ELSE issue.type

ZeroCounts == [k \in Kinds |-> 0]

\* for issue in issues: if issue_type in issue_counts: issue_counts[..] += 1
RECURSIVE tally(_, _)
tally(items, counts) ==
    IF items = <<>> THEN counts
    ELSE LET t == get_type(Head(items))
         IN tally(Tail(items),
                  IF t \in Kinds THEN [counts EXCEPT ![t] = @ + 1] ELSE counts)

\* a faulty variant: 'total' is the sum of the five counts
file_summary_total_of_counts(file_path, res) ==
    LET counts == tally(res.issues.items, ZeroCounts)
    IN [file |-> file_path,
        score |-> res.score,
        fatal |-> counts["fatal"],
        error |-> counts["error"],
        warning |-> counts["warning"],
        refactor |-> counts["refactor"],
        convention |-> counts["convention"],
        total |-> counts["fatal"] + counts["error"] + counts["warning"]
                  + counts["refactor"] + counts["convention"]]

\* 'file' is file_path as given (os.path.relpath of it when the target is a
\* directory, which keeps distinct files distinct)
file_summary(file_path, res) ==
    LET counts == tally(res.issues.items, ZeroCounts)
    IN [file |-> file_path,
        score |-> res.score,
        fatal |-> counts["fatal"],
        error |-> counts["error"],
        warning |-> counts["warning"],
        refactor |-> counts["refactor"],
        convention |-> counts["convention"],
        total |-> Len(res.issues.items)]

(***************************************************************************)
(* file_summaries.sort(key=lambda x: (x['score'], -x['total'])):           *)
(* list.sort is stable; the key tuples compare lexicographically.          *)
(***************************************************************************)
\* a faulty variant: the total is not negated
summary_key_ascending_total(x) == <<x.score, x.total>>

summary_key(x) == <<x.score, 0 - x.total>>

PairLess(a, b) == a[1] < b[1] \/ (a[1] = b[1] /\ a[2] < b[2])

\* x goes before the first element whose key is greater than its own
StableInsert(sorted, x) ==
    LET later == {p \in 1..Len(sorted) : PairLess(summary_key(x), summary_key(sorted[p]))}
        at == IF later = {} THEN Len(sorted) + 1
              ELSE CHOOSE p \in later : \A q \in later : p <= q
    IN SubSeq(sorted, 1, at - 1) \o <<x>> \o SubSeq(sorted, at, Len(sorted))

RECURSIVE SortFrom(_, _)
SortFrom(sorted, rest) ==
    IF rest = <<>> THEN sorted
    ELSE SortFrom(StableInsert(sorted, Head(rest)), Tail(rest))

sort_summaries(summaries) == SortFrom(<<>>, summaries)

(***************************************************************************)
(* calculate_priority_score and the < of the tuples it returns.            *)
(***************************************************************************)
\* a faulty variant: a kind outside SEVERITY_ORDER gets severity 0
calculate_priority_score_default_zero(row) ==
    LET severity_score == IF row.type \in Kinds THEN SEVERITY_ORDER[row.type] ELSE 0
        weight == IF row.type \in Kinds THEN SCORE_WEIGHTS[row.type] ELSE 0
    IN <<severity_score, 0 - weight, row.path, row.line>>

\* a faulty variant: the line is left out of the key
calculate_priority_score_no_line(row) ==
    LET severity_score == IF row.type \in Kinds THEN SEVERITY_ORDER[row.type] ELSE 999
        weight == IF row.type \in Kinds THEN SCORE_WEIGHTS[row.type] ELSE 0
    IN <<severity_score, 0 - weight, row.path, 0>>

calculate_priority_score(row) ==
    LET severity_score == IF row.type \in Kinds THEN SEVERITY_ORDER[row.type] ELSE 999
        weight == IF row.type \in Kinds THEN SCORE_WEIGHTS[row.type] ELSE 0
    IN <<severity_score, 0 - weight, row.path, row.line>>

TupleLess(a, b) ==
    IF a[1] # b[1] THEN a[1] < b[1]
    ELSE IF a[2] # b[2] THEN a[2] < b[2]
    ELSE IF a[3] # b[3] THEN StrLess(a[3], b[3])
    ELSE a[4] < b[4]

(***************************************************************************)
(* df.sort_values('priority_score'): kind defaults to 'quicksort', and the *)
(* column of tuples is an object array, so the indexer is numpy's generic  *)
(* argsort quicksort: median-of-three partitioning while a range has more  *)
(* than SMALL_QUICKSORT + 1 elements, insertion sort below that.  (Its     *)
(* depth limit, 2 * floor(log2 n) partitions before heapsort, is out of    *)
(* reach of the list lengths of this model.)                               *)
(***************************************************************************)
SMALL_QUICKSORT == 16

Swap(t, a, b) == [t EXCEPT ![a] = t[b], ![b] = t[a]]

\* if (v[*a] < v[*b]) INTP_SWAP(*a, *b)
SwapIfLess(v, t, a, b) ==
    IF TupleLess(v[t[a]], v[t[b]]) THEN Swap(t, a, b) ELSE t

MedianOfThree(v, t, pl, pm, pr) ==
    SwapIfLess(v, SwapIfLess(v, SwapIfLess(v, t, pm, pl), pr, pm), pm, pl)

\* do ++pi while v[*pi] < vp (entered after the increment)
RECURSIVE ScanUp(_, _, _, _)
ScanUp(v, t, pi, vp) ==
    IF TupleLess(v[t[pi]], vp) THEN ScanUp(v, t, pi + 1, vp) ELSE pi

\* do --pj while vp < v[*pj] (entered after the decrement)
RECURSIVE ScanDown(_, _, _, _)
ScanDown(v, t, pj, vp) ==
    IF TupleLess(vp, v[t[pj]]) THEN ScanDown(v, t, pj - 1, vp) ELSE pj

RECURSIVE PartitionLoop(_, _, _, _, _)
PartitionLoop(v, t, pi, pj, vp) ==
    LET i2 == ScanUp(v, t, pi + 1, vp)
        j2 == ScanDown(v, t, pj - 1, vp)
    IN IF i2 >= j2 THEN [t |-> t, pi |-> i2]
       ELSE PartitionLoop(v, Swap(t, i2, j2), i2, j2, vp)

Partition(v, t, pl, pr) ==
    LET pm == pl + ((pr - pl) \div 2)
        t3 == MedianOfThree(v, t, pl, pm, pr)
        vp == v[t3[pm]]
        r == PartitionLoop(v, Swap(t3, pm, pr - 1), pl, pr - 1, vp)
    IN [t |-> Swap(r.t, r.pi, pr - 1), pi |-> r.pi]

RECURSIVE ShiftDown(_, _, _, _, _)
ShiftDown(v, t, pl, pj, vi) ==
    IF pj > pl /\ TupleLess(v[vi], v[t[pj - 1]])
    THEN ShiftDown(v, [t EXCEPT ![pj] = t[pj - 1]], pl, pj - 1, vi)
    ELSE [t EXCEPT ![pj] = vi]

RECURSIVE InsertionSort(_, _, _, _, _)
InsertionSort(v, t, pl, pi, pr) ==
    IF pi > pr THEN t
    ELSE InsertionSort(v, ShiftDown(v, t, pl, pi, t[pi]), pl, pi + 1, pr)

\* the loop of npy_aquicksort over its stack of pending ranges: a range of
\* more than SMALL_QUICKSORT + 1 elements is partitioned and both parts are
\* pending, a shorter one is insertion-sorted
RECURSIVE aquicksort(_, _, _)
aquicksort(v, t, stack) ==
    IF stack = <<>> THEN t
    ELSE LET pl == Head(stack)[1]
             pr == Head(stack)[2]
             big == pr - pl > SMALL_QUICKSORT
             p == Partition(v, t, pl, pr)
             t2 == IF big THEN p.t ELSE InsertionSort(v, t, pl, pl + 1, pr)
             pending == IF big THEN <<<<pl, p.pi - 1>>, <<p.pi + 1, pr>>>> ELSE <<>>
         IN aquicksort(v, t2, pending \o Tail(stack))

\* the positions of v in sorted order (1-based)
argsort(v) ==
    IF v = <<>> THEN <<>> ELSE aquicksort(v, [i \in 1..Len(v) |-> i], <<<<1, Len(v)>>>>)

\* df['priority_score'] = df.apply(calculate_priority_score, axis=1);
\* df = df.sort_values('priority_score')
sort_values(rows) ==
    LET keys == [i \in 1..Len(rows) |-> calculate_priority_score(rows[i])]
        ix == argsort(keys)
    IN [indexer |-> ix, rows |-> [p \in 1..Len(rows) |-> rows[ix[p]]]]

(***************************************************************************)
(* Inputs: what pylint prints, and which files are discovered.             *)
(***************************************************************************)
PathA == <<"a", ".", "p", "y">>
PathB == <<"b", ".", "p", "y">>
PathAi == <<"a", ".", "p", "y", "i">>

PathC == <<"c", ".", "p", "y">>
\* a file of a sub-directory, joined to the root by os.walk
PathPkgM == <<"p", "k", "g", "/", "m", ".", "p", "y">>

\* the .py files the target can hold
FileNames == {PathA, PathB, PathC, PathPkgM}

Finding(t, p, l, s) == [type |-> t, path |-> p, line |-> l, symbol |-> s]

\* findings of every severity, of two kinds outside the enumeration, on
\* paths where one is a prefix of another, on one- and two-digit lines, and
\* with two findings of equal sort key (E2, E3)
PoolSeq ==
    << Finding("error", PathA, 10, "E1"),
       Finding("fatal", PathB, 3, "F1"),
       Finding("error", PathA, 2, "E2"),
       Finding("error", PathA, 2, "E3"),
       Finding("error", PathB, 1, "E4"),
       Finding("error", PathAi, 1, "E5"),
       Finding("warning", PathA, 10, "W1"),
       Finding("refactor", PathB, 3, "R1"),
       Finding("convention", PathA, 2, "C1"),
       Finding("info", PathA, 2, "I1"),
       Finding("", PathB, 3, "X1"),
       Finding("convention", PathB, 10, "C2") >>

FindingPool == {PoolSeq[i] : i \in 1..Len(PoolSeq)}

\* one finding per kind a file's records can carry, a missing 'type' included
FileFindingPool ==
    {Finding(t, PathA, 1, "S") : t \in Kinds \cup {"info", NoType}}

ListsOver(S, n) == UNION {[1..k -> S] : k \in 0..n}

\* a long list: every stride-th finding of the pool, each with a symbol of
\* its own; stride 0 gives LargeLen findings of one and the same sort key
LargeList(stride, off) ==
    [i \in 1..LargeLen |->
        [PoolSeq[((i * stride + off) % Len(PoolSeq)) + 1]
            EXCEPT !.symbol = "S" \o ToString(i)]]

LargeLists == {LargeList(st, off) : st \in {0, 1, 5}, off \in 0..(Len(PoolSeq) - 1)}

\* the textual summaries
Rated(num) == RatedAt \o num \o SlashTen
\* pylint's last line, with the previous run's score after the current one
Text950 ==
    <<"c", "o", "d", "e", " ">> \o Rated(<<"9", ".", "5", "0">>)
        \o <<" ", "(", "p", "r", "e", "v", " ">> \o Rated(<<"1", ".", "0", "0">>) \o <<")">>
Text95 == Rated(<<"9", ".", "5">>)
Text700 == Rated(<<"7", ".", "0", "0">>)
Text10 == Rated(<<"1", "0", ".", "0", "0">>)
\* the pattern matches and float() raises ValueError
TextTwoDots == Rated(<<"1", ".", "2", ".", "3">>)
TextOnlyDot == Rated(<<".">>)
\* no match: no output, a negative score, no number, no "/10"
TextNone == <<>>
TextNegative == RatedAt \o <<"-", "2", ".", "5", "0">> \o SlashTen
TextNoNumber == RatedAt \o SlashTen
TextNoSlash == RatedAt \o <<"9", ".", "5", "0">>
\* digits outside ASCII: ARABIC-INDIC DIGIT THREE, FULLWIDTH DIGIT THREE
TextOtherDigits == Rated(<<Chr(1635), ".", Chr(65299)>>)

JsonList(items) == [tag |-> "list", items |-> items]
JsonEmpty == [tag |-> "empty", items |-> <<>>]
JsonInvalid == [tag |-> "invalid", items |-> <<>>]
JsonObject == [tag |-> "object", items |-> <<>>]

Ran(json, text) == [raises |-> "none", json |-> json, text |-> text]
Raised(e) == [raises |-> e, json |-> JsonEmpty, text |-> <<>>]

ThreeFindings == <<PoolSeq[1], PoolSeq[3], PoolSeq[9]>>
OneFinding == <<PoolSeq[7]>>

\* whole-target runs of the ranking checks
RankTargetRuns ==
    {Ran(JsonList(l), Text950) : l \in ListsOver(FindingPool, MaxFindings) \cup LargeLists}
    \cup {Raised("FileNotFoundError"), Raised("KeyboardInterrupt"),
          Ran(JsonObject, Text950), Ran(JsonInvalid, TextNone),
          Ran(JsonList(ThreeFindings), TextTwoDots),
          Ran(JsonList(ThreeFindings), TextOtherDigits)}

\* per-file runs of the counting checks
CountFileRuns ==
    {Ran(JsonList(l), t) : l \in ListsOver(FileFindingPool, MaxFileFindings),
                           t \in {Text950, TextNegative}}
    \cup {Raised("FileNotFoundError"), Raised("KeyboardInterrupt"),
          Ran(JsonObject, Text950), Ran(JsonInvalid, Text950),
          Ran(JsonList(ThreeFindings), TextOnlyDot),
          Ran(JsonList(ThreeFindings), TextTwoDots),
          Ran(JsonList(OneFinding), TextOtherDigits)}

\* per-file runs of the checks of the order of the summaries
FileRuns ==
    { Raised("FileNotFoundError"),
      Ran(JsonObject, Text950),
      Ran(JsonList(ThreeFindings), Text950),
      Ran(JsonEmpty, Text95),
      Ran(JsonList(OneFinding), TextNoNumber),
      Ran(JsonList(ThreeFindings), Text700) }

\* whole-target runs of the checks of the order of the summaries
FileTargetRuns == {Ran(JsonList(OneFinding), Text10)}

\* per-file runs of the checks of the degraded scopes
ScopeFileRuns ==
    { Raised("FileNotFoundError"),
      Raised("PermissionError"),
      Ran(JsonList(OneFinding), TextNoNumber),
      Raised("KeyboardInterrupt"),
      Ran(JsonInvalid, TextNone) }

\* whole-target runs of the checks of the degraded scopes
ScopeTargetRuns ==
    { Raised("FileNotFoundError"),
      Raised("KeyboardInterrupt"),
      Ran(JsonList(ThreeFindings), TextNoSlash),
      Ran(JsonEmpty, TextNone) }

\* discovery orders: os.walk lists a directory in the order the file system
\* gives, so get_python_files can return any files of the target, up to
\* MaxFiles of them, in any order
FileOrders ==
    UNION {{f \in [1..n -> FileNames] : \A a, b \in 1..n : a # b => f[a] # f[b]}
              : n \in 0..MaxFiles}

(***************************************************************************)
(* State.                                                                  *)
(***************************************************************************)
VARIABLES
    python_files,    \* get_python_files(target_path)
    target_run,      \* what pylint does on the whole target
    file_runs,       \* what pylint does on python_files[i]
    pc,              \* the position in run_dashboard
    idx,             \* the per-file loop: the next file
    all_issues,      \* [tag, items]
    overall_score,
    file_summaries,
    df,              \* the rows of the DataFrame handed to the report
    indexer          \* the row of all_issues each row of df comes from

vars == <<python_files, target_run, file_runs, pc, idx, all_issues,
          overall_score, file_summaries, df, indexer>>

Locals ==
    /\ pc = "start"
    /\ idx = 1
    /\ all_issues = EmptyIssues
    /\ overall_score = DEFAULT_SCORE
    /\ file_summaries = <<>>
    /\ df = <<>>
    /\ indexer = <<>>

\* one file, any whole-target output
InitRank ==
    /\ python_files \in {<<>>, <<PathA>>}
    /\ target_run \in RankTargetRuns
    /\ file_runs \in [1..Len(python_files) -> {Ran(JsonList(OneFinding), Text950)}]
    /\ Locals

\* one file, any list of findings for it
InitCounts ==
    /\ python_files \in {<<>>, <<PathA>>}
    /\ target_run \in {Ran(JsonList(OneFinding), Text950), Ran(JsonObject, Text950)}
    /\ file_runs \in [1..Len(python_files) -> CountFileRuns]
    /\ Locals

\* several files in any order, for the order of the summaries
InitFiles ==
    /\ python_files \in FileOrders
    /\ target_run \in FileTargetRuns
    /\ file_runs \in [1..Len(python_files) -> FileRuns]
    /\ Locals

\* several files in any order, for the scopes that fail or have no score
InitScopes ==
    /\ python_files \in FileOrders
    /\ target_run \in ScopeTargetRuns
    /\ file_runs \in [1..Len(python_files) -> ScopeFileRuns]
    /\ Locals

Init == InitRank \/ InitCounts \/ InitFiles \/ InitScopes

(***************************************************************************)
(* run_dashboard, step by step.                                            *)
(***************************************************************************)
\* python_files = get_python_files(target_path); if not python_files: return
Discover ==
    /\ pc = "start"
    /\ pc' = IF python_files = <<>> THEN "returned" ELSE "target"
    /\ UNCHANGED <<python_files, target_run, file_runs, idx, all_issues,
                   overall_score, file_summaries, df, indexer>>

\* the try block around the two whole-target subprocess runs
RunTarget ==
    /\ pc = "target"
    /\ LET r == run_on_target(target_run)
       IN /\ all_issues' = r.all_issues
          /\ overall_score' = r.overall_score
    /\ pc' = "files"
    /\ UNCHANGED <<python_files, target_run, file_runs, idx, file_summaries,
                   df, indexer>>

\* one iteration of "for file_path in python_files".  The call of
\* run_pylint_on_file is outside any try, so what it lets through leaves
\* run_dashboard.  Iterating the dict of a JSON object yields its keys, and
\* str has no .get: AttributeError, which nothing in run_dashboard catches.
RunFile ==
    /\ pc = "files"
    /\ idx <= Len(python_files)
    /\ LET res == run_pylint_on_file(file_runs[idx])
       IN IF res.raises # "none" \/ res.issues.tag = "object"
          THEN /\ pc' = "raised"
               /\ UNCHANGED <<idx, file_summaries>>
          ELSE /\ file_summaries' =
                      Append(file_summaries, file_summary(python_files[idx], res))
               /\ idx' = idx + 1
               /\ pc' = pc
    /\ UNCHANGED <<python_files, target_run, file_runs, all_issues,
                   overall_score, df, indexer>>

\* file_summaries.sort(...)
SortSummaries ==
    /\ pc = "files"
    /\ idx > Len(python_files)
    /\ file_summaries' = sort_summaries(file_summaries)
    /\ pc' = "rank"
    /\ UNCHANGED <<python_files, target_run, file_runs, idx, all_issues,
                   overall_score, df, indexer>>

\* if all_issues: df = DataFrame(all_issues), ranked; else: df = DataFrame().
\* pd.DataFrame of a dict of scalars raises ValueError.
Rank ==
    /\ pc = "rank"
    /\ IF ~Truthy(all_issues)
       THEN /\ df' = <<>>
            /\ indexer' = <<>>
            /\ pc' = "render"
       ELSE IF all_issues.tag = "object"
       THEN /\ pc' = "raised"
            /\ UNCHANGED <<df, indexer>>
       ELSE LET r == sort_values(all_issues.items)
            IN /\ df' = r.rows
               /\ indexer' = r.indexer
               /\ pc' = "render"
    /\ UNCHANGED <<python_files, target_run, file_runs, idx, all_issues,
                   overall_score, file_summaries>>

\* the figure, generate_html_report, the file write, the viewer
Render ==
    /\ pc = "render"
    /\ pc' = "done"
    /\ UNCHANGED <<python_files, target_run, file_runs, idx, all_issues,
                   overall_score, file_summaries, df, indexer>>

Next == Discover \/ RunTarget \/ RunFile \/ SortSummaries \/ Rank \/ Render

Spec == Init /\ [][Next]_vars
SpecRank == InitRank /\ [][Next]_vars
SpecCounts == InitCounts /\ [][Next]_vars
SpecFiles == InitFiles /\ [][Next]_vars
SpecScopes == InitScopes /\ [][Next]_vars

(***************************************************************************)
(* Properties.                                                             *)
(***************************************************************************)
\* the ranked issue list has been produced
Ranked == pc \in {"render", "done"}

\* file_summaries has been sorted
Summarised == pc \in {"rank", "render", "done"}

\* the whole-target run is over
TargetDone == pc \in {"files", "rank", "render", "done", "raised"}

\* the severity rank as the specification words it
ClaimRank(kind) ==
    CASE kind = "fatal" -> 0
      [] kind = "error" -> 1
      [] kind = "warning" -> 2
      [] kind = "refactor" -> 3
      [] kind = "convention" -> 4
      [] OTHER -> 5

\* df holds the rows of all_issues, each once, in the order of indexer
IsRanking ==
    /\ Len(df) = Len(all_issues.items)
    /\ Len(indexer) = Len(df)
    /\ {indexer[p] : p \in 1..Len(indexer)} = 1..Len(df)
    /\ \A p \in 1..Len(df) : df[p] = all_issues.items[indexer[p]]

\* every subprocess invocation raises FileNotFoundError
ToolMissing ==
    /\ target_run.raises = "FileNotFoundError"
    /\ \A i \in 1..Len(file_runs) : file_runs[i].raises = "FileNotFoundError"

\* text holds 'rated at ', one or more digits or dots, and '/10' in a row
HasRatingPattern(text) ==
    \E i, j \in 1..Len(text) :
        /\ i + 10 <= j /\ j + 2 <= Len(text)
        /\ SubSeq(text, i, i + 8) = <<"r", "a", "t", "e", "d", " ", "a", "t", " ">>
        /\ \A k \in (i + 9)..(j - 1) : text[k] \in Digits \cup {"."}
        /\ SubSeq(text, j, j + 2) = <<"/", "1", "0">>

\* the tool ran and its textual summary holds no such pattern
NoMatch(run) == run.raises = "none" /\ ~HasRatingPattern(run.text)

\* the summaries of the file at position i of python_files
SummariesOf(i) ==
    {n \in 1..Len(file_summaries) : file_summaries[n].file = python_files[i]}

SumOfCounts(s) == s.fatal + s.error + s.warning + s.refactor + s.convention

CountOf(items, k) == Cardinality({j \in 1..Len(items) : items[j].type = k})

\* C1: in the ranked issue list a finding of lower severity rank (fatal <
\* error < warning < refactor < convention < any other kind) stands before
\* every finding of higher rank, whatever their path, line, symbol or
\* position in the input; the ranked list is the input list reordered.
C1_SeverityOrder ==
    Ranked /\ Truthy(all_issues) =>
        /\ IsRanking
        /\ \A p, q \in 1..Len(df) :
              ClaimRank(df[p].type) < ClaimRank(df[q].type) => p < q

\* C1 witness: a ranked list in which a fatal finding was moved in front of a
\* finding of a kind outside the enumeration that preceded it in the input.
C1_Witness ==
    /\ pc = "done"
    /\ Len(df) = MaxFindings
    /\ \E i, j \in 1..Len(all_issues.items) :
          /\ i < j
          /\ all_issues.items[i].type \notin Kinds
          /\ all_issues.items[j].type = "fatal"
    /\ df[1].type = "fatal"

\* C4: two findings of the same kind and path are ranked by ascending line
\* number, two of the same kind and different paths by ascending path
\* (lexicographic); (error, a.py, 10), (fatal, b.py, 3), (error, a.py, 2)
\* rank as fatal b.py:3, error a.py:2, error a.py:10.
C4_PathThenLine ==
    Ranked /\ Truthy(all_issues) =>
        /\ \A p, q \in 1..Len(df) :
              p < q /\ df[p].type = df[q].type =>
                  IF df[p].path = df[q].path
                  THEN df[p].line <= df[q].line
                  ELSE StrLess(df[p].path, df[q].path)
        /\ all_issues.items = <<PoolSeq[1], PoolSeq[2], PoolSeq[3]>> =>
              df = <<PoolSeq[2], PoolSeq[3], PoolSeq[1]>>

\* C4 witness: the scenario of the specification, ranked.
C4_Witness ==
    /\ pc = "done"
    /\ all_issues.items = <<PoolSeq[1], PoolSeq[2], PoolSeq[3]>>
    /\ df = <<PoolSeq[2], PoolSeq[3], PoolSeq[1]>>

\* C8: the ranking is stable: two findings of identical sort key stand in the
\* ranked list in the order they have in the input list.
C8_StableForTies ==
    Ranked /\ Truthy(all_issues) =>
        \A p, q \in 1..Len(indexer) :
            /\ p < q
            /\ calculate_priority_score(all_issues.items[indexer[p]])
                  = calculate_priority_score(all_issues.items[indexer[q]])
            => indexer[p] < indexer[q]

\* C9: ranking the ranked list again returns it unchanged.
C9_Idempotent ==
    Ranked /\ Truthy(all_issues) => sort_values(df).rows = df

\* C2 as stated: the total of every FileSummary is the sum of its five
\* per-kind counts, whatever the kinds of the file's findings.
C2_TotalIsSumOfCounts ==
    \A n \in 1..Len(file_summaries) :
        file_summaries[n].total = SumOfCounts(file_summaries[n])

\* C2 amended: the total of a FileSummary is the number of findings of its
\* file; each per-kind count is the number of those findings of that kind (0
\* when there is none); so the total is the sum of the five counts plus the
\* number of findings whose kind is outside the enumeration or missing.
C2_TotalIsNumberOfFindings ==
    \A i \in 1..Len(python_files) : \A n \in SummariesOf(i) :
        LET items == run_pylint_on_file(file_runs[i]).issues.items
            s == file_summaries[n]
            others == Cardinality({j \in 1..Len(items) : items[j].type \notin Kinds})
        IN /\ s.total = Len(items)
           /\ s.fatal = CountOf(items, "fatal")
           /\ s.error = CountOf(items, "error")
           /\ s.warning = CountOf(items, "warning")
           /\ s.refactor = CountOf(items, "refactor")
           /\ s.convention = CountOf(items, "convention")
           /\ s.total = SumOfCounts(s) + others

\* C2 witness: a summary of a file with findings inside and outside the
\* enumeration.
C2_Witness ==
    /\ pc = "done"
    /\ \E n \in 1..Len(file_summaries) :
          /\ file_summaries[n].total >= 2
          /\ SumOfCounts(file_summaries[n]) >= 1
          /\ SumOfCounts(file_summaries[n]) < file_summaries[n].total

\* C3: once sorted, adjacent summaries are in ascending score, and for equal
\* scores in descending total; a.py (9.5, 0 findings) and b.py (9.5, 3
\* findings) come out as [b.py, a.py] in either discovery order.
C3_SummariesOrdered ==
    Summarised =>
        /\ \A n \in 1..(Len(file_summaries) - 1) :
              \/ file_summaries[n].score < file_summaries[n + 1].score
              \/ /\ file_summaries[n].score = file_summaries[n + 1].score
                 /\ file_summaries[n].total >= file_summaries[n + 1].total
        /\ (/\ Len(file_summaries) = 2
            /\ \E a, b \in 1..2 :
                  /\ file_summaries[a].file = PathA
                  /\ file_summaries[a].score = 950 /\ file_summaries[a].total = 0
                  /\ file_summaries[b].file = PathB
                  /\ file_summaries[b].score = 950 /\ file_summaries[b].total = 3)
           => file_summaries[1].file = PathB /\ file_summaries[2].file = PathA

\* C3 witness: a.py discovered first, and b.py sorted in front of it.
C3_Witness ==
    /\ pc = "done"
    /\ python_files = <<PathA, PathB>>
    /\ file_summaries[1].file = PathB /\ file_summaries[1].total = 3
    /\ file_summaries[2].file = PathA /\ file_summaries[2].total = 0
    /\ file_summaries[1].score = 950 /\ file_summaries[2].score = 950

\* C5: with the tool missing, run_pylint_on_file returns ([], 0.0) for every
\* file, nothing is raised, and run_dashboard runs on to its end with an
\* empty issue list and one summary per file, of score 0.0 and total 0.
C5_MissingToolDegrades ==
    ToolMissing =>
        /\ \A i \in 1..Len(file_runs) :
              run_pylint_on_file(file_runs[i]) = Returns(EmptyIssues, 0)
        /\ pc # "raised"
        /\ pc \notin {"done", "returned"} => ENABLED Next
        /\ pc = "done" =>
              /\ df = <<>>
              /\ Len(file_summaries) = Len(python_files)
              /\ \A i \in 1..Len(python_files) :
                    \E n \in 1..Len(file_summaries) :
                        /\ file_summaries[n].file = python_files[i]
                        /\ file_summaries[n].score = 0
                        /\ file_summaries[n].total = 0

\* C5 witness: the end of a run over two or more files with the tool missing.
C5_Witness == ToolMissing /\ pc = "done" /\ Len(python_files) >= 2

\* C6 as stated: with the tool missing every scope, the whole target
\* included, ends with empty findings and a score of 0.0.
C6_EveryScopeZero ==
    ToolMissing /\ TargetDone =>
        /\ all_issues = EmptyIssues
        /\ overall_score = 0
        /\ \A n \in 1..Len(file_summaries) :
              file_summaries[n].score = 0 /\ file_summaries[n].total = 0

\* C6 amended: with the tool missing nothing is raised, every per-file run
\* ends with empty findings and a score of 0.0, and the whole-target run ends
\* with empty findings and the initial overall score of 10.0.
C6_PerFileZeroTargetDefault ==
    ToolMissing =>
        /\ pc # "raised"
        /\ TargetDone => all_issues = EmptyIssues /\ overall_score = 1000
        /\ \A n \in 1..Len(file_summaries) :
              file_summaries[n].score = 0 /\ file_summaries[n].total = 0

\* C6 witness: the whole-target run and a per-file run are over, the tool
\* missing.
C6_Witness ==
    /\ ToolMissing
    /\ pc = "files"
    /\ Len(file_summaries) >= 1
    /\ overall_score = 1000

\* C7: when the tool runs and the textual summary holds no match of
\* 'rated at <decimal>/10', the score of the scope is 10.0, with or without
\* findings, and the findings are those of the structured output: for the
\* whole target and for each file.
C7_DefaultScore ==
    /\ NoMatch(target_run) /\ TargetDone =>
          /\ overall_score = 1000
          /\ target_run.json.tag = "list" => all_issues.items = target_run.json.items
          /\ target_run.json.tag \in {"empty", "invalid"} => all_issues.items = <<>>
    /\ \A i \in 1..Len(python_files) :
          NoMatch(file_runs[i]) =>
              /\ run_pylint_on_file(file_runs[i]).score = 1000
              /\ file_runs[i].json.tag = "list" =>
                    run_pylint_on_file(file_runs[i]).issues.items = file_runs[i].json.items
              /\ \A n \in SummariesOf(i) :
                    /\ file_summaries[n].score = 1000
                    /\ file_summaries[n].total = Len(file_runs[i].json.items)

\* C7 witness: a run in which the whole-target summary and the summaries of
\* two files have no match, one file with findings and one without.
C7_Witness ==
    /\ pc = "done"
    /\ NoMatch(target_run) /\ all_issues.items # <<>>
    /\ \E i, j \in 1..Len(python_files) :
          /\ NoMatch(file_runs[i]) /\ file_runs[i].json.items # <<>>
          /\ NoMatch(file_runs[j]) /\ file_runs[j].json.items = <<>>
          /\ \E n \in SummariesOf(i) : file_summaries[n].total >= 1
          /\ \E n \in SummariesOf(j) : file_summaries[n].total = 0

\* C10: no file's failed run aborts the report: the per-file loop never
\* raises, and the sorted file_summaries has exactly one entry per
\* discovered file.
C10_OneSummaryPerFile ==
    /\ ~(pc = "raised" /\ idx <= Len(python_files))
    /\ Summarised =>
          /\ Len(file_summaries) = Len(python_files)
          /\ \A i \in 1..Len(python_files) : Cardinality(SummariesOf(i)) = 1

====
